---- MODULE Spec2Model ----
(***************************************************************************)
(* Model of the runqy-benchmarks load generators: the thread-pool runners  *)
(* (benchmark_runqy, benchmark_celery, benchmark_runqy_direct), the        *)
(* semaphore-based Temporal run_benchmark, the batch runners               *)
(* (benchmark_pipelined, benchmark_bulk_insert, benchmark_batch_endpoint,  *)
(* benchmark_batch_sizes), their __main__ pre-flight checks, and the       *)
(* latency statistics (calculate_percentile, calculate_metrics and the     *)
(* inline percentile computations).                                        *)
(*                                                                         *)
(* Units.  A latency in seconds is an integer count of 1e-7 s.  A latency  *)
(* in milliseconds is an integer count of 1e-7 ms, so that the code's      *)
(* "l * 1000" is a multiplication by 1000 and round(x, 3) rounds to a      *)
(* multiple of 10000.  The wall-clock duration of a run is an integer      *)
(* count of 1e-4 s and a throughput an integer count of 0.01 jobs/s.       *)
(***************************************************************************)
EXTENDS Integers, Sequences, FiniteSets, TLC

VARIABLES
    runner,          \* which script / benchmark function this run is
    jobs_count,      \* --jobs / jobs_count / job_count / total_jobs
    concurrency,     \* --concurrency / max_workers / Semaphore(concurrency)
    batch_size,      \* --batch / batch_size
    pc,              \* position of the main thread (or main coroutine)
    cause,           \* why the run ended in "failed"
    exit_code,       \* process exit status once the run has ended
    saved,           \* the result file has been written
    result,          \* <<>> or <<r>>: the BenchmarkResult returned
    status,          \* per job index: none / queued / inflight / done / collected
    outcome,         \* per job index: <<>> or <<[lat, ok]>>, what the submitter returned
    submitted,       \* per job index: how many times a submission was scheduled
    collects,        \* per job index: how many times its outcome was collected
    threads,         \* worker threads the ThreadPoolExecutor has spawned
    sem,             \* asyncio.Semaphore._value
    warm,            \* warm-up submissions issued (Temporal)
    warm_busy,       \* a warm-up submission is awaiting its response
    latencies,       \* the runner's latencies / batch_latencies list
    errors,          \* the runner's errors counter
    cursor,          \* batch_start of the next batch (batch runners)
    total_enqueued,  \* total_enqueued (batch endpoint runners)
    delivered,       \* jobs the target actually accepted (environment truth)
    attempted,       \* jobs handed to the target in some submission attempt
    idle,            \* ThreadPoolExecutor._idle_semaphore
    preflight,       \* outcome of the pre-flight check: pending / ok / unreachable
    total_time,      \* end_time - start_time of the submission window; -1 before
    clock,           \* time.perf_counter(), in 1e-4 s since the process started
    start_time,      \* start_time of the concurrent runners; -1 before it is read
    started,         \* per job index: the clock when its call was initiated; -1 before
    warm_started,    \* the clock when the current warm-up call was initiated
    target_arg,      \* the target given on the command line (--url / --redis)
    probed,          \* the target the pre-flight check contacted; "none" before
    sent_to,         \* the target of the latest submission; "none" before
    packable         \* per job index: msgpack.packb(job) succeeds on its payload

vars == <<runner, jobs_count, concurrency, batch_size, pc, cause, exit_code,
          saved, result, status, outcome, submitted, collects, threads, sem,
          warm, warm_busy, latencies, errors, cursor, total_enqueued,
          delivered, attempted, idle, preflight, total_time, clock,
          start_time, started, warm_started, target_arg, probed, sent_to,
          packable>>

----------------------------------------------------------------------------
(* Bounds of the model *)

MaxJobs == 3
MaxConc == 2
MaxBatch == 2
MaxShortLen == 3
(* a job count large enough for the Temporal warm-up to happen; its        *)
(* submissions all succeed with the same latency                           *)
WarmJobs == 20
(* the longest job list handed to simulate_batch_endpoint on its own *)
MaxPayloads == 5

(* Program constants *)

CHUNK_SIZE == 10000

Min2(a, b) == IF a <= b THEN a ELSE b
Max2(a, b) == IF a >= b THEN a ELSE b

(* Latency values a submission can take (1e-7 s units) *)
LatValues == {12, 25}

(* end_time - start_time as time.perf_counter() can report it around a      *)
(* submission window (1e-4 s units)                                         *)
ShortDurations == {7, 50}
Durations == ShortDurations \cup {5000}

----------------------------------------------------------------------------
(* Python arithmetic used by the percentile computations *)

RECURSIVE Pow2Ceil(_)
(* the smallest power of two that is >= q, for q >= 1 *)
Pow2Ceil(q) == IF q <= 1 THEN 1 ELSE 2 * Pow2Ceil((q + 1) \div 2)

(* The IEEE-754 double nearest to p/100 is (p * 2^53 - DoubleDeficit(p)) /  *)
(* (100 * 2^53): 0.5 is exact, 0.95 is 8556839292003942 / 2^53 and 0.99 is *)
(* 8917127262193582 / 2^53.                                                 *)
DoubleDeficit(p) == CASE p = 50 -> 0 [] p = 95 -> 40 [] p = 99 -> 8

(* the index rounded to the nearest integer instead of truncated *)
PyIntFloatMul_rounded(n, p) == (n * p + 50) \div 100

(* int(n * 0.50), int(n * 0.95), int(n * 0.99): the exact product is       *)
(* n*p/100 - DoubleDeficit(p)*n / (100 * 2^53); the multiplication rounds   *)
(* it to the nearest double and int() truncates.  With q = n*p div 100: if  *)
(* 100 does not divide n*p the product lies strictly between q and q+1 and  *)
(* at least 1/100 from both, so int() gives q.  Otherwise the product is    *)
(* just below the integer q and rounds up to q exactly when its distance    *)
(* from q is at most half the spacing of the doubles below q, that is when  *)
(* 2 * deficit * n <= 100 * Pow2Ceil(q); if not, int() gives q - 1.         *)
PyIntFloatMul(n, p) ==
    LET q == (n * p) \div 100
        r == (n * p) % 100
    IN  IF r # 0 \/ q = 0 THEN q
        ELSE IF 2 * DoubleDeficit(p) * n <= 100 * Pow2Ceil(q) THEN q
        ELSE q - 1

(* int(n * percentile / 100) with an int percentile: n * percentile is an  *)
(* exact int and the true division is correctly rounded, so the quotient    *)
(* never reaches the next integer: int() gives the floor.                   *)
PyIntTrueDiv(a, b) == a \div b

(* the list left in the order of completion *)
sorted_not(s) == s

(* sorted(s) / s.sort(): the k-th element is an element of s with fewer     *)
(* than k elements below it and at least k elements <= it.  (SubSeq makes   *)
(* each function an explicit sequence, computed once.)                      *)
sorted(s) ==
    LET n == Len(s)
        le == SubSeq([j \in 1..n |-> Cardinality({i \in 1..n : s[i] <= s[j]})], 1, n)
        lt == SubSeq([j \in 1..n |-> Cardinality({i \in 1..n : s[i] < s[j]})], 1, n)
    IN  SubSeq([k \in 1..n |-> s[CHOOSE j \in 1..n : lt[j] < k /\ k <= le[j]]], 1, n)

(* [l * 1000 for l in latencies] *)
ToMs(s) == SubSeq([i \in 1..Len(s) |-> s[i] * 1000], 1, Len(s))

(* round(x, 3) of a millisecond value: to the nearest multiple of 1e-3 ms, *)
(* a tie going to the even multiple.                                        *)
Round3(x) ==
    LET lo == (x \div 10000) * 10000
        r == x % 10000
    IN  IF r < 5000 THEN lo
        ELSE IF r > 5000 THEN lo + 10000
        ELSE IF (x \div 10000) % 2 = 0 THEN lo ELSE lo + 10000

(* the integer nearest to a / b (b > 0), a tie going to the even one: what  *)
(* round() does to a quotient on its grid                                   *)
RoundQuot(a, b) ==
    LET q == a \div b
        r == a % b
    IN  IF 2 * r < b THEN q
        ELSE IF 2 * r > b THEN q + 1
        ELSE IF q % 2 = 0 THEN q ELSE q + 1

(* jobs / duration in 0.01 jobs/s, for a duration in 1e-4 s *)
JobsPerSecond(jobs, duration) == RoundQuot(jobs * 1000000, duration)

(* round(duration, 3): to the nearest millisecond, in 1e-4 s *)
RoundDuration(duration) == RoundQuot(duration, 10) * 10

RECURSIVE SeqSum(_, _, _)
(* sum(s[lo..hi]), the range split in halves *)
SeqSum(s, lo, hi) ==
    IF lo > hi THEN 0
    ELSE IF lo = hi THEN s[lo]
    ELSE SeqSum(s, lo, (lo + hi) \div 2) + SeqSum(s, (lo + hi) \div 2 + 1, hi)

(* round(statistics.mean(s), 3) of a non-empty millisecond list: the mean   *)
(* is Q + R / n exactly, with the sum taken over the quotients and the      *)
(* remainders by n so that it stays within the integers, and it is rounded  *)
(* to the nearest multiple of 1e-3 ms, a tie going to the even one          *)
RoundMean3(s) ==
    LET n == Len(s)
        quots == SubSeq([i \in 1..n |-> s[i] \div n], 1, n)
        rems == SubSeq([i \in 1..n |-> s[i] % n], 1, n)
        rsum == SeqSum(rems, 1, n)
        Q == SeqSum(quots, 1, n) + rsum \div n
        R == rsum % n
        lo == Q \div 10000
        r == (Q % 10000) * n + R
    IN  IF 2 * r < 10000 * n THEN lo * 10000
        ELSE IF 2 * r > 10000 * n THEN (lo + 1) * 10000
        ELSE IF lo % 2 = 0 THEN lo * 10000 ELSE (lo + 1) * 10000

SeqMin(s) == CHOOSE v \in {s[i] : i \in DOMAIN s} : \A j \in DOMAIN s : v <= s[j]
SeqMax(s) == CHOOSE v \in {s[i] : i \in DOMAIN s} : \A j \in DOMAIN s : v >= s[j]

(* a Python list index idx is valid for a list of length n *)
InRange(idx, n) == 0 <= idx /\ idx < n

(* list[idx] for a 0-based idx that is in range; 0 stands for the value of  *)
(* an access that faulted, which the caller reports as a fault.             *)
At(s, idx) == IF InRange(idx, Len(s)) THEN s[idx + 1] ELSE 0

----------------------------------------------------------------------------
(* benchmark_common.py *)

(* a percentile that reports -1, "no data", for an empty list *)
calculate_percentile_nodata(lats, percentile) ==
    IF lats = <<>> THEN -1
    ELSE LET sorted_latencies == sorted(lats)
             index == PyIntTrueDiv(Len(sorted_latencies) * percentile, 100)
         IN  sorted_latencies[Min2(index, Len(sorted_latencies) - 1) + 1]

calculate_percentile(lats, percentile) ==
    IF lats = <<>> THEN 0
    ELSE LET sorted_latencies == sorted(lats)
             index == PyIntTrueDiv(Len(sorted_latencies) * percentile, 100)
         IN  sorted_latencies[Min2(index, Len(sorted_latencies) - 1) + 1]

calculate_metrics(system, jobs, start_t, end_t, lats, errs) ==
    LET duration == end_t - start_t
        throughput == IF duration > 0 THEN JobsPerSecond(jobs, duration) ELSE 0
        latencies_ms == ToMs(lats)
    IN  [system |-> system,
         job_count |-> jobs,
         duration |-> RoundDuration(duration),
         throughput |-> throughput,
         p50 |-> Round3(calculate_percentile(latencies_ms, 50)),
         p95 |-> Round3(calculate_percentile(latencies_ms, 95)),
         p99 |-> Round3(calculate_percentile(latencies_ms, 99)),
         avg |-> IF latencies_ms # <<>> THEN RoundMean3(latencies_ms) ELSE 0,
         min |-> IF latencies_ms # <<>> THEN Round3(SeqMin(latencies_ms)) ELSE 0,
         max |-> IF latencies_ms # <<>> THEN Round3(SeqMax(latencies_ms)) ELSE 0,
         errors |-> errs,
         fault |-> "none"]

(* The inline percentile computations.  Each gives the three indexes it    *)
(* uses on its sorted list; p99 alone is clamped.                           *)
InlineIdx(n) ==
    [p50 |-> PyIntFloatMul(n, 50),
     p95 |-> PyIntFloatMul(n, 95),
     p99 |-> Min2(PyIntFloatMul(n, 99), n - 1)]

(* A BenchmarkResult built from a sorted millisecond list by one of the     *)
(* inline computations (these results have no avg / min / max field):      *)
(* throughput_per_second = jobs_count / total_time has no guard and raises  *)
(* ZeroDivisionError for total_time = 0; an index outside the list raises   *)
(* IndexError.                                                              *)
InlineResult(system, jobs, total, sorted_ms, errs) ==
    LET n == Len(sorted_ms)
        ix == InlineIdx(n)
        ok == InRange(ix.p50, n) /\ InRange(ix.p95, n) /\ InRange(ix.p99, n)
    IN  [system |-> system,
         job_count |-> jobs,
         duration |-> total,
         throughput |-> IF total # 0 THEN JobsPerSecond(jobs, total) ELSE 0,
         p50 |-> At(sorted_ms, ix.p50),
         p95 |-> At(sorted_ms, ix.p95),
         p99 |-> At(sorted_ms, ix.p99),
         errors |-> errs,
         fault |-> IF total = 0 THEN "ZeroDivisionError"
                   ELSE IF ok THEN "none" ELSE "IndexError"]

(* benchmark_runqy_direct: latencies.sort(); latencies_ms = [l * 1000 ...] *)
direct_result(jobs, total, lats, errs) ==
    InlineResult("runqy", jobs, total, ToMs(sorted(lats)), errs)

(* benchmark_pipelined: per_job_latencies.sort() on millisecond values *)
pipelined_result(jobs, total, per_job_lats, errs) ==
    InlineResult("runqy", jobs, total, sorted(per_job_lats), errs)

(* the percentiles indexed without the "if latencies:" guard *)
temporal_result_unguarded(jobs, total, lats, errs) ==
    InlineResult("temporal", jobs, total, sorted(lats), errs)

(* Temporal run_benchmark: "if latencies:" guards the percentiles; without  *)
(* latencies the result is BenchmarkResult(job_count=..., errors=...),      *)
(* every other field at its default of 0.0                                  *)
temporal_result(jobs, total, lats, errs) ==
    IF lats # <<>>
    THEN InlineResult("temporal", jobs, total, sorted(lats), errs)
    ELSE [system |-> "temporal", job_count |-> jobs, duration |-> 0,
          throughput |-> 0, p50 |-> 0, p95 |-> 0, p99 |-> 0, errors |-> errs,
          fault |-> "none"]

----------------------------------------------------------------------------
(* The runs *)

(* the targets a run can be pointed at: the one the script names by default *)
(* and another one given on the command line                                *)
DefaultTarget == "default"
Targets == {DefaultTarget, "other"}

PoolRunners == {"runqy", "celery", "direct"}
BatchRunners == {"pipelined", "bulk", "batch_endpoint", "batch_sizes"}
Runners == PoolRunners \cup {"temporal"} \cup BatchRunners

(* scripts whose __main__ probes the target before the run *)
PreflightRunners == {"runqy", "celery", "direct", "temporal", "pipelined",
                     "bulk", "batch_endpoint"}

(* a steady pipelined run: 1000 jobs in batches of 100, every batch taking  *)
(* 50 ms (500000 units of 1e-7 s)                                           *)
Steady == [jobs |-> 1000, batch |-> 100, lat |-> 500000]

(* range(jobs_count): the job indexes of the run *)
Jobs == 0..(jobs_count - 1)
JobRange == Jobs

NoOutcome == <<>>

(* what a submission can return: the environment decides the elapsed time   *)
(* and whether the target accepted the job                                  *)
Deliveries ==
    IF jobs_count = Steady.jobs THEN {[lat |-> Steady.lat, ok |-> TRUE]}
    ELSE IF jobs_count > MaxJobs THEN {[lat |-> 12, ok |-> TRUE]}
    ELSE [lat : LatValues, ok : BOOLEAN]

(* a flaky target: 10 jobs submitted 5 at a time, every 3rd call failing *)
Flaky == [jobs |-> 10, conc |-> 5, every |-> 3]

(* a paced target: 100 jobs, 10 at a time (5 at a time through the thread   *)
(* pool), every call succeeding after a fixed delay of 5 ms (50 units of    *)
(* 1e-4 s); the program's own steps take no time                            *)
Paced == [jobs |-> 100, conc |-> 10, delay |-> 50]
PacedConfigs ==
    {[runner |-> "temporal", jobs |-> Paced.jobs, conc |-> Paced.conc, batch |-> 1],
     [runner |-> "runqy", jobs |-> Paced.jobs, conc |-> Paced.conc \div 2, batch |-> 1]}
IsPaced ==
    jobs_count = Paced.jobs /\ concurrency \in {Paced.conc, Paced.conc \div 2}

(* what the submission of job i can return; the pool starts its work items  *)
(* in index order, so the call for job i is call number i + 1.  Against the *)
(* paced target the elapsed time is what the clock says (1e-4 s to 1e-7 s). *)
DeliveriesOf(i) ==
    IF IsPaced
    THEN {[lat |-> (clock - started[i]) * 1000, ok |-> TRUE]}
    ELSE IF jobs_count = Flaky.jobs
    THEN {[lat |-> 12, ok |-> (i + 1) % Flaky.every # 0]}
    ELSE Deliveries

(* the call of job i has returned: against the paced target, after the      *)
(* fixed delay                                                              *)
Due(i) == IsPaced => clock = started[i] + Paced.delay

InFlight == {i \in Jobs : status[i] = "inflight"}
Queued == {i \in Jobs : status[i] = "queued"}

(* submissions started and not yet returned, warm-up ones included *)
Unresolved == Cardinality(InFlight) + (IF warm_busy THEN 1 ELSE 0)

(* the target the pre-flight check contacts: check_runqy_server and         *)
(* check_redis read the module global (RUNQY_URL, REDIS_URL) when they are  *)
(* called, after __main__ has rebound it to the command-line argument; the  *)
(* other scripts name their target in a constant                            *)
CheckTarget ==
    IF runner \in {"runqy", "celery"} THEN target_arg ELSE DefaultTarget

(* the target a submission is sent to: benchmark_runqy.submit_job reads     *)
(* RUNQY_URL at each call; the Celery app took broker_url from REDIS_URL    *)
(* when the module was loaded, before the command line was parsed           *)
SubmitTarget ==
    IF runner = "runqy" THEN target_arg ELSE DefaultTarget

(* redis.ConnectionPool(max_connections=concurrency + 10) *)
max_connections == concurrency + 10

(* connections of the shared pool that are checked out: a call of           *)
(* submit_task_direct holds one while its pipe.execute() runs, and nothing  *)
(* else takes one (redis.Redis(connection_pool=pool) connects lazily)       *)
CheckedOut == IF runner = "direct" THEN Cardinality(InFlight) ELSE 0

(* end_time - start_time as the run can measure it: against the paced       *)
(* target the clock gives it                                                *)
Elapsed == IF IsPaced THEN {clock - start_time} ELSE Durations

Configs ==
    {[runner |-> "pipelined", jobs |-> Steady.jobs, conc |-> 1,
      batch |-> Steady.batch],
     [runner |-> "runqy", jobs |-> Flaky.jobs, conc |-> Flaky.conc,
      batch |-> 1]} \cup
    {c \in [runner : Runners, jobs : (-1..MaxJobs) \cup {WarmJobs},
            conc : -1..MaxConc, batch : -1..MaxBatch] :
        /\ c.jobs = WarmJobs => c.runner = "temporal"
        /\ c.runner \notin PoolRunners \cup {"temporal"} => c.conc = 1
        /\ c.runner \notin {"pipelined", "batch_endpoint", "batch_sizes"} => c.batch = 1
        \* benchmark_batch_sizes: total_jobs_per_test = 10000 and every entry
        \* of batch_sizes is positive and divides it
        /\ c.runner = "batch_sizes" =>
               c.jobs >= 1 /\ c.batch >= 1 /\ c.jobs % c.batch = 0}

(* the state after the command line is parsed, for a run of one of the      *)
(* configurations C with its target argument in T; the payloads the         *)
(* runners generate are dicts of ints, floats and strings, which pack       *)
InitWith(C, T) ==
    /\ \E c \in C :
          /\ runner = c.runner
          /\ jobs_count = c.jobs
          /\ concurrency = c.conc
          /\ batch_size = c.batch
    /\ target_arg \in T
    /\ probed = "none"
    /\ sent_to = "none"
    /\ packable = [i \in Jobs |-> TRUE]
    /\ clock = 0
    /\ start_time = -1
    /\ started = [i \in Jobs |-> -1]
    /\ warm_started = -1
    /\ pc = "configuring"
    /\ cause = "none"
    /\ exit_code = -1
    /\ saved = FALSE
    /\ result = <<>>
    /\ status = [i \in Jobs |-> "none"]
    /\ outcome = [i \in Jobs |-> NoOutcome]
    /\ submitted = [i \in Jobs |-> 0]
    /\ collects = [i \in Jobs |-> 0]
    /\ threads = 0
    /\ sem = 0
    /\ warm = 0
    /\ warm_busy = FALSE
    /\ latencies = <<>>
    /\ errors = 0
    /\ cursor = 0
    /\ total_enqueued = 0
    /\ delivered = 0
    /\ attempted = 0
    /\ idle = 0
    /\ preflight = "pending"
    /\ total_time = -1

Init == InitWith(Configs, {DefaultTarget})

config_vars == <<runner, jobs_count, concurrency, batch_size, preflight>>
clock_vars == <<clock, start_time, started, warm_started>>
target_vars == <<target_arg, probed, sent_to>>
aux_vars == <<clock_vars, target_vars, packable>>
pool_vars == <<threads, idle>>
temporal_vars == <<sem, warm, warm_busy>>
job_vars == <<status, outcome, submitted, collects>>
tally_vars == <<latencies, errors, total_enqueued>>
ghost_vars == <<delivered, attempted>>
end_vars == <<cause, exit_code, saved, result>>

(* the process dies with exit status 1: exit(1) or an uncaught exception *)
Abort(why) ==
    /\ pc' = "failed"
    /\ cause' = why
    /\ exit_code' = 1
    /\ UNCHANGED <<saved, result>>

(* the benchmark function returns r and __main__ writes it to the results  *)
(* directory                                                               *)
Complete(r) ==
    /\ pc' = "completed"
    /\ result' = <<r>>
    /\ saved' = TRUE
    /\ exit_code' = 0
    /\ UNCHANGED cause

(* __main__: the pre-flight check of the target (check_runqy_server,        *)
(* check_redis, the inline rdb.ping(), Client.connect); exit(1) when the    *)
(* target is unreachable.  test_batch_endpoint.py has no such check.        *)
PreflightThen(exits) ==
    /\ pc = "configuring"
    /\ runner \in PreflightRunners
    /\ \E reachable \in BOOLEAN :
          IF reachable
          THEN preflight' = "ok" /\ pc' = "start" /\ UNCHANGED end_vars
          ELSE /\ preflight' = "unreachable"
               /\ IF exits THEN Abort("preflight")
                  ELSE pc' = "start" /\ UNCHANGED end_vars
    /\ probed' = CheckTarget
    /\ UNCHANGED <<total_time, clock_vars, target_arg, sent_to, packable, runner,
                   jobs_count, concurrency, batch_size, pool_vars,
                   temporal_vars, job_vars, tally_vars, ghost_vars, cursor>>

(* the check's failure is printed and the run goes on *)
Preflight_ignored == PreflightThen(FALSE)

Preflight == PreflightThen(TRUE)

----------------------------------------------------------------------------
(* The thread-pool runners: benchmark_runqy, benchmark_celery,              *)
(* benchmark_runqy_direct                                                   *)

(* start_time = time.perf_counter(), then "with ThreadPoolExecutor(         *)
(* max_workers=concurrency)": the constructor raises ValueError when        *)
(* max_workers <= 0, and nothing catches it.                                *)
PoolCreate ==
    /\ pc = "start"
    /\ runner \in PoolRunners
    /\ start_time' = clock
    /\ IF concurrency <= 0
       THEN Abort("config")
       ELSE pc' = "submitting" /\ UNCHANGED end_vars
    /\ UNCHANGED <<total_time, clock, started, warm_started, target_vars, packable,
                   config_vars, pool_vars, temporal_vars, job_vars, tally_vars,
                   ghost_vars, cursor>>

(* executor.submit(submit_job, i, ...) for the next i of range(jobs_count): *)
(* the work item is queued; a worker thread is spawned unless an idle       *)
(* token is available or max_workers threads exist already.                 *)
PoolSubmit ==
    /\ pc = "submitting"
    /\ cursor < jobs_count
    /\ status' = [status EXCEPT ![cursor] = "queued"]
    /\ submitted' = [submitted EXCEPT ![cursor] = @ + 1]
    /\ IF idle > 0
       THEN idle' = idle - 1 /\ UNCHANGED threads
       ELSE /\ threads' = IF threads < concurrency THEN threads + 1 ELSE threads
            /\ UNCHANGED idle
    /\ cursor' = cursor + 1
    /\ UNCHANGED <<total_time, aux_vars, config_vars, pc, end_vars, temporal_vars, outcome, collects,
                   tally_vars, ghost_vars>>

(* the list of futures is complete: the main thread enters as_completed *)
PoolSubmitted ==
    /\ pc = "submitting"
    /\ cursor >= jobs_count
    /\ pc' = "collecting"
    /\ UNCHANGED <<total_time, aux_vars, config_vars, end_vars, pool_vars, temporal_vars, job_vars,
                   tally_vars, ghost_vars, cursor>>

(* a worker thread that runs no work item takes the oldest queued one and   *)
(* calls the submitter                                                      *)
WorkerStartIf(free) ==
    /\ runner \in PoolRunners
    /\ Queued # {}
    /\ free
    /\ LET i == CHOOSE j \in Queued : \A k \in Queued : j <= k
       IN  /\ status' = [status EXCEPT ![i] = "inflight"]
           /\ started' = [started EXCEPT ![i] = clock]
    /\ sent_to' = SubmitTarget
    /\ attempted' = attempted + 1
    /\ UNCHANGED <<total_time, clock, start_time, warm_started, target_arg, probed,
                   packable, config_vars, pc, end_vars, pool_vars, temporal_vars,
                   outcome, submitted, collects, tally_vars, cursor, delivered>>

(* a pool that starts every queued item at once, whatever max_workers is *)
WorkerStart_unbounded == WorkerStartIf(TRUE)

WorkerStart == WorkerStartIf(Cardinality(InFlight) < threads)

(* submit_job / submit_task_direct returns (latency, None) or, from its     *)
(* "except Exception" or a non-200 status, (latency, error), the latency    *)
(* being end - start around the call on either path; the worker sets the    *)
(* future's result and releases an idle token.  "tally" is what the worker  *)
(* does to the lists and counters of the main thread.  In the outcome,      *)
(* spent is the time the call took and err why it failed: "pool" when the   *)
(* connection pool had no connection left for it (ConnectionError).         *)
WorkerFinishAnd(i, tally) ==
    /\ runner \in PoolRunners
    /\ status[i] = "inflight"
    /\ Due(i)
    /\ \E d \in DeliveriesOf(i) :
          LET refused == runner = "direct" /\ CheckedOut > max_connections
              ok == d.ok /\ ~refused
          IN  /\ outcome' = [outcome EXCEPT ![i] =
                     <<[lat |-> d.lat, ok |-> ok, spent |-> d.lat,
                        err |-> IF refused THEN "pool"
                                ELSE IF d.ok THEN "none" ELSE "target"]>>]
              /\ delivered' = IF ok THEN delivered + 1 ELSE delivered
    /\ status' = [status EXCEPT ![i] = "done"]
    /\ idle' = idle + 1
    /\ tally
    /\ UNCHANGED <<total_time, aux_vars, config_vars, pc, end_vars, threads, temporal_vars,
                   submitted, collects, cursor, attempted>>

(* a worker thread that appends its latency to the shared list itself *)
WorkerFinish_appends(i) ==
    WorkerFinishAnd(i, /\ latencies' = Append(latencies, clock - started[i])
                       /\ UNCHANGED <<errors, total_enqueued>>)

WorkerFinish(i) == WorkerFinishAnd(i, UNCHANGED tally_vars)

(* one iteration of "for future in as_completed(futures)": any finished     *)
(* future not yet yielded                                                   *)
PoolCollectIf(i, counted) ==
    /\ pc = "collecting"
    /\ runner \in PoolRunners
    /\ status[i] = "done"
    /\ latencies' = Append(latencies, outcome[i][1].lat)
    /\ errors' = IF counted THEN errors + 1 ELSE errors
    /\ collects' = [collects EXCEPT ![i] = @ + 1]
    /\ status' = [status EXCEPT ![i] = "collected"]
    /\ UNCHANGED <<total_time, aux_vars, config_vars, pc, end_vars, pool_vars, temporal_vars, outcome,
                   submitted, total_enqueued, ghost_vars, cursor>>

(* a collection loop that counts an error only while none was counted *)
PoolCollect_once(i) == PoolCollectIf(i, ~outcome[i][1].ok /\ errors = 0)

(* "if error: errors += 1" *)
PoolCollect(i) == PoolCollectIf(i, ~outcome[i][1].ok)

(* as_completed is exhausted: the statistics are computed and the result    *)
(* returned and saved.  benchmark_runqy_direct sorts latencies in place     *)
(* and indexes it; an IndexError is not caught.                             *)
PoolFinishWhen(exhausted) ==
    /\ pc = "collecting"
    /\ runner \in PoolRunners
    /\ exhausted
    /\ \E d \in Elapsed :
          /\ total_time' = d
          /\ IF runner = "direct"
             THEN LET r == direct_result(jobs_count, d, latencies, errors)
                  IN  /\ latencies' = sorted(latencies)
                      /\ IF r.fault = "none" THEN Complete(r) ELSE Abort("aggregate")
             ELSE /\ Complete(calculate_metrics(
                                  IF runner = "runqy" THEN "Runqy" ELSE "Celery",
                                  jobs_count, 0, d, latencies, errors))
                  /\ UNCHANGED latencies
    /\ UNCHANGED <<aux_vars, config_vars, pool_vars, temporal_vars, job_vars, errors,
                   total_enqueued, ghost_vars, cursor>>

(* a collection loop that can stop before every future has been yielded *)
PoolFinish_early == PoolFinishWhen(TRUE)

PoolFinish == PoolFinishWhen(\A i \in JobRange : status[i] = "collected")

----------------------------------------------------------------------------
(* Temporal: run_benchmark *)

(* warmup_count = min(50, job_count // 20) *)
warmup_count == Min2(50, jobs_count \div 20)

(* "await submit_workflow(client, f'warmup-{i}')": one warm-up at a time *)
WarmupStart ==
    /\ pc = "start"
    /\ runner = "temporal"
    /\ warm < warmup_count
    /\ ~warm_busy
    /\ warm_busy' = TRUE
    /\ warm_started' = clock
    /\ sent_to' = SubmitTarget
    /\ UNCHANGED <<total_time, clock, start_time, started, target_arg, probed, packable,
                   config_vars, pc, end_vars, pool_vars, sem, warm, job_vars,
                   tally_vars, ghost_vars, cursor>>

(* the warm-up submission returns (against the paced target, after the      *)
(* fixed delay); its outcome is dropped                                     *)
WarmupReturn ==
    /\ warm_busy
    /\ IsPaced => clock = warm_started + Paced.delay
    /\ warm_busy' = FALSE
    /\ warm' = warm + 1
    /\ UNCHANGED <<total_time, aux_vars, config_vars, pc, end_vars, pool_vars, sem, job_vars,
                   tally_vars, ghost_vars, cursor>>

(* start_time = time.perf_counter() (the reading is t); then                *)
(* asyncio.Semaphore(concurrency) raises ValueError for a negative value;   *)
(* then tasks = [bounded_submit(i) for i in range(job_count)] and gather    *)
(* schedules every one of them.                                             *)
GatherFrom(t) ==
    /\ pc = "start"
    /\ runner = "temporal"
    /\ warm >= warmup_count
    /\ ~warm_busy
    /\ start_time' = t
    /\ IF concurrency < 0
       THEN /\ Abort("config")
            /\ UNCHANGED <<sem, status, submitted>>
       ELSE /\ pc' = "gathering"
            /\ sem' = concurrency
            /\ status' = [i \in Jobs |-> IF i \in JobRange THEN "queued" ELSE status[i]]
            /\ submitted' = [i \in Jobs |-> IF i \in JobRange THEN submitted[i] + 1
                                             ELSE submitted[i]]
            /\ UNCHANGED end_vars
    /\ UNCHANGED <<total_time, clock, started, warm_started, target_vars, packable,
                   config_vars, pool_vars, warm, warm_busy, outcome, collects,
                   tally_vars, ghost_vars, cursor>>

(* a timed window that opens when the process starts, warm-up included *)
Gather_whole == GatherFrom(0)

Gather == GatherFrom(clock)

(* "async with semaphore": the tasks reach the semaphore in index order and *)
(* its waiters are woken first-in first-out; a permit is taken when one is  *)
(* free, and submit_workflow is called.                                     *)
AcquireIf(free) ==
    /\ pc = "gathering"
    /\ Queued # {}
    /\ free
    /\ LET i == CHOOSE j \in Queued : \A k \in Queued : j <= k
       IN  /\ status' = [status EXCEPT ![i] = "inflight"]
           /\ started' = [started EXCEPT ![i] = clock]
    /\ sent_to' = SubmitTarget
    /\ sem' = sem - 1
    /\ attempted' = attempted + 1
    /\ UNCHANGED <<total_time, clock, start_time, warm_started, target_arg, probed,
                   packable, config_vars, pc, end_vars, pool_vars, warm, warm_busy,
                   outcome, submitted, collects, tally_vars, cursor, delivered>>

(* a permit handed out only while no submission is in flight *)
Acquire_serial == AcquireIf(sem > 0 /\ InFlight = {})

Acquire == AcquireIf(sem > 0)

(* submit_workflow returns (latency in ms, True), or (0.0, False) from its  *)
(* "except Exception"; leaving "async with" releases the permit, on either  *)
(* path ("released").  In the outcome, spent is the time the call took.     *)
ReturnWith(i, released) ==
    /\ pc = "gathering"
    /\ status[i] = "inflight"
    /\ Due(i)
    /\ \E d \in DeliveriesOf(i) :
          /\ outcome' = [outcome EXCEPT ![i] =
                 <<[lat |-> IF d.ok THEN d.lat * 1000 ELSE 0, ok |-> d.ok,
                    spent |-> d.lat, err |-> IF d.ok THEN "none" ELSE "target"]>>]
          /\ delivered' = IF d.ok THEN delivered + 1 ELSE delivered
          /\ sem' = IF released \/ d.ok THEN sem + 1 ELSE sem
    /\ status' = [status EXCEPT ![i] = "done"]
    /\ UNCHANGED <<total_time, aux_vars, config_vars, pc, end_vars, pool_vars, warm, warm_busy,
                   submitted, collects, tally_vars, cursor, attempted>>

(* a permit that is given back only when the submission succeeded *)
Return_leaky(i) == ReturnWith(i, FALSE)

Return(i) == ReturnWith(i, TRUE)

(* "for latency, success in results: if success: latencies.append(latency)" *)
(* over the results of the tasks 0..n-1, which gather returns in task order *)
SuccessLats(n) ==
    IF n <= 0 THEN <<>>
    ELSE LET results == SubSeq([i \in 1..n |-> outcome[i - 1][1]], 1, n)
             success(o) == o.ok
             kept == SelectSeq(results, success)
         IN  SubSeq([k \in 1..Len(kept) |-> kept[k].lat], 1, Len(kept))

(* gather returns once every task is done; "for latency, success in         *)
(* results" appends the successes to latencies and counts the failures;     *)
(* the statistics are computed and the result returned and saved.           *)
TemporalFinish ==
    /\ pc = "gathering"
    /\ \A i \in JobRange : status[i] = "done"
    /\ \E d \in Elapsed :
          LET lats == SuccessLats(jobs_count)
              errs == Cardinality({i \in JobRange : ~outcome[i][1].ok})
              r == temporal_result(jobs_count, d, lats, errs)
          IN  /\ total_time' = d
              /\ latencies' = sorted(lats)
              /\ errors' = errs
              /\ IF r.fault = "none" THEN Complete(r) ELSE Abort("aggregate")
    /\ status' = [i \in Jobs |-> IF i \in JobRange THEN "collected" ELSE status[i]]
    /\ collects' = [i \in Jobs |-> IF i \in JobRange THEN collects[i] + 1
                                   ELSE collects[i]]
    /\ UNCHANGED <<aux_vars, config_vars, pool_vars, temporal_vars, outcome, submitted,
                   total_enqueued, ghost_vars, cursor>>

----------------------------------------------------------------------------
(* The batch runners *)

(* "for batch_start in range(0, jobs_count, batch_size)" has a next value *)
RangeHasNext ==
    \/ batch_size > 0 /\ cursor < jobs_count
    \/ batch_size < 0 /\ cursor > jobs_count

(* the job indexes lo..hi, the upper end included *)
Span_inclusive(lo, hi) == {i \in Jobs : lo <= i /\ i <= hi}

(* the job indexes lo..hi-1 *)
Span(lo, hi) == {i \in Jobs : lo <= i /\ i < hi}

(* every batch taken to be a full one *)
BatchLen_full(start) == batch_size

(* batch_end - batch_start of the batch that starts at start *)
BatchLen(start) == Min2(start + batch_size, jobs_count) - start

(* the number of list elements in tasks[lo:lo+step] / jobs[lo:lo+step]      *)
(* of a list of length n                                                    *)
SliceLen(n, lo, step) ==
    LET len == Max2(n, 0)
        hi == IF lo + step < 0 THEN Max2(len + lo + step, 0) ELSE Min2(lo + step, len)
    IN  Max2(hi - Min2(lo, len), 0)

(* benchmark_pipelined: rdb.sadd("asynq:queues", QUEUE_NAME) before the     *)
(* timed window, outside any try; then range(0, jobs_count, batch_size)     *)
(* raises ValueError for a zero step.                                       *)
PipelinedRegister ==
    /\ pc = "start"
    /\ runner = "pipelined"
    /\ \E reachable \in BOOLEAN :
          IF ~reachable THEN Abort("setup")
          ELSE IF batch_size = 0 THEN Abort("config")
          ELSE pc' = "batching" /\ UNCHANGED end_vars
    /\ UNCHANGED <<total_time, aux_vars, config_vars, pool_vars, temporal_vars, job_vars, tally_vars,
                   ghost_vars, cursor>>

(* one batch: the commands of its jobs are queued on a pipeline and         *)
(* pipe.execute() sends them; "except Exception" counts the whole batch as  *)
(* errors; the batch latency (ms) is appended either way.                   *)
PipelinedBatchWith(caught) ==
    /\ pc = "batching"
    /\ runner = "pipelined"
    /\ RangeHasNext
    /\ LET batch_end == Min2(cursor + batch_size, jobs_count)
           members == Span(cursor, batch_end)
       IN  \E d \in Deliveries :
             /\ IF caught \/ d.ok THEN pc' = pc /\ UNCHANGED end_vars
                ELSE Abort("delivery")
             /\ submitted' = [i \in Jobs |-> IF i \in members THEN submitted[i] + 1
                                              ELSE submitted[i]]
             /\ collects' = [i \in Jobs |-> IF i \in members THEN collects[i] + 1
                                            ELSE collects[i]]
             /\ status' = [i \in Jobs |-> IF i \in members THEN "collected"
                                          ELSE status[i]]
             /\ outcome' = [i \in Jobs |-> IF i \in members
                                           THEN <<[lat |-> d.lat * 1000, ok |-> d.ok]>>
                                           ELSE outcome[i]]
             /\ attempted' = attempted + Cardinality(members)
             /\ delivered' = IF d.ok THEN delivered + Cardinality(members) ELSE delivered
             /\ errors' = IF d.ok THEN errors ELSE errors + (batch_end - cursor)
             /\ latencies' = Append(latencies, d.lat * 1000)
    /\ cursor' = cursor + batch_size
    /\ UNCHANGED <<total_time, aux_vars, config_vars, pool_vars, temporal_vars, total_enqueued>>

(* pipe.execute() with no try around it *)
PipelinedBatch_uncaught == PipelinedBatchWith(FALSE)

PipelinedBatch == PipelinedBatchWith(TRUE)

RECURSIVE extend_batches(_, _, _)
(* what "for i, batch_lat in enumerate(batch_latencies)" appends for the    *)
(* batches lo..hi (1-based), in order: per_job = batch_lat / jobs_in_batch, *)
(* repeated jobs_in_batch times ([x] * k is empty for k <= 0); the division *)
(* is taken on the 1e-7 ms grid.  The range is split in halves.             *)
extend_batches(batch_latencies, lo, hi) ==
    IF lo > hi THEN <<>>
    ELSE IF lo = hi
         THEN LET jobs_in_batch == BatchLen((lo - 1) * batch_size)
                  per_job == batch_latencies[lo] \div jobs_in_batch
              IN  [j \in 1..jobs_in_batch |-> per_job]
         ELSE LET mid == (lo + hi) \div 2
              IN  extend_batches(batch_latencies, lo, mid) \o
                  extend_batches(batch_latencies, mid + 1, hi)

per_job_latencies(batch_latencies) ==
    extend_batches(batch_latencies, 1, Len(batch_latencies))

(* the loop is over: per-job latencies, percentiles, result.  An empty      *)
(* per_job_latencies makes per_job_latencies[p50_idx] raise IndexError.     *)
PipelinedFinish ==
    /\ pc = "batching"
    /\ runner = "pipelined"
    /\ ~RangeHasNext
    /\ \E d \in Durations :
          LET r == pipelined_result(jobs_count, d, per_job_latencies(latencies),
                                    errors)
          IN  /\ total_time' = d
              /\ IF r.fault = "none" THEN Complete(r) ELSE Abort("aggregate")
    /\ UNCHANGED <<aux_vars, config_vars, pool_vars, temporal_vars, job_vars, tally_vars,
                   ghost_vars, cursor>>

(* benchmark_bulk_insert: the tasks are pre-generated, then                 *)
(* rdb.sadd("asynq:queues", QUEUE_NAME), outside any try.                   *)
BulkRegister ==
    /\ pc = "start"
    /\ runner = "bulk"
    /\ \E reachable \in BOOLEAN :
          IF reachable THEN pc' = "bulk_push" /\ UNCHANGED end_vars
          ELSE Abort("setup")
    /\ UNCHANGED <<total_time, aux_vars, config_vars, pool_vars, temporal_vars, job_vars, tally_vars,
                   ghost_vars, cursor>>

(* "for i in range(0, len(tasks), CHUNK_SIZE): rdb.lpush(pending_key,       *)
(* *chunk)": no try around it, so a fault of the push ends the process.     *)
BulkPush ==
    /\ pc = "bulk_push"
    /\ cursor < jobs_count
    /\ LET members == Span(cursor, cursor + CHUNK_SIZE)
       IN  /\ submitted' = [i \in Jobs |-> IF i \in members THEN submitted[i] + 1
                                            ELSE submitted[i]]
           /\ status' = [i \in Jobs |-> IF i \in members /\ i < jobs_count
                                        THEN "inflight" ELSE status[i]]
           /\ attempted' = attempted + Cardinality(members \cap JobRange)
    /\ \E pushed \in BOOLEAN :
          IF pushed
          THEN pc' = pc /\ cursor' = cursor + CHUNK_SIZE /\ UNCHANGED end_vars
          ELSE Abort("delivery") /\ UNCHANGED cursor
    /\ UNCHANGED <<total_time, aux_vars, config_vars, pool_vars, temporal_vars, outcome, collects,
                   tally_vars, delivered>>

(* the metadata pipeline is executed (no try; an empty pipeline sends       *)
(* nothing), then per_job_latency = (total_time * 1000) / jobs_count, which *)
(* raises ZeroDivisionError for jobs_count = 0; errors is the literal 0.    *)
(* (total_time is one of the short durations, whose value in 1e-7 ms is     *)
(* within the integers.)                                                    *)
BulkFinish ==
    /\ pc = "bulk_push"
    /\ cursor >= jobs_count
    /\ \E d \in Deliveries, t \in ShortDurations :
          IF ~d.ok /\ jobs_count > 0 THEN
              /\ Abort("delivery")
              /\ UNCHANGED <<status, outcome, collects, delivered, total_time>>
          ELSE IF jobs_count = 0 THEN
              /\ Abort("aggregate")
              /\ total_time' = t
              /\ UNCHANGED <<status, outcome, collects, delivered>>
          ELSE LET per_job_latency == (t * 1000000) \div jobs_count IN
              /\ total_time' = t
              /\ status' = [i \in Jobs |-> IF i \in JobRange THEN "collected"
                                           ELSE status[i]]
              /\ outcome' = [i \in Jobs |-> IF i \in JobRange
                                            THEN <<[lat |-> per_job_latency, ok |-> TRUE]>>
                                            ELSE outcome[i]]
              /\ collects' = [i \in Jobs |-> IF i \in JobRange THEN collects[i] + 1
                                             ELSE collects[i]]
              /\ delivered' = delivered + Cardinality(JobRange)
              /\ Complete([system |-> "runqy", job_count |-> jobs_count,
                           duration |-> t,
                           throughput |-> JobsPerSecond(jobs_count, t),
                           p50 |-> per_job_latency, p95 |-> per_job_latency,
                           p99 |-> per_job_latency,
                           errors |-> 0, fault |-> "none"])
    /\ UNCHANGED <<aux_vars, config_vars, pool_vars, temporal_vars, submitted, tally_vars,
                   attempted, cursor>>

(* benchmark_batch_endpoint: print(f"Requests: {total_jobs // batch_size}") *)
(* raises ZeroDivisionError for batch_size = 0 before any request.          *)
EndpointStart ==
    /\ pc = "start"
    /\ runner = "batch_endpoint"
    /\ IF batch_size = 0 THEN Abort("config")
       ELSE pc' = "batching" /\ UNCHANGED end_vars
    /\ UNCHANGED <<total_time, aux_vars, config_vars, pool_vars, temporal_vars, job_vars, tally_vars,
                   ghost_vars, cursor>>

(* a failure that strikes after the list push of the job was queued *)
job_commands_pushfirst(j) ==
    IF packable[j]
    THEN <<[op |-> "lpush", job |-> j], [op |-> "hset", job |-> j]>>
    ELSE <<[op |-> "lpush", job |-> j]>>

(* what the try body of simulate_batch_endpoint queues on the pipeline for  *)
(* job j: msgpack.packb(job) comes first and raises for a payload that does *)
(* not pack, before any command is queued; pipe.lpush and pipe.hset (with   *)
(* its three-field mapping) only append to the pipeline's command stack.    *)
job_commands(j) ==
    IF packable[j]
    THEN <<[op |-> "lpush", job |-> j], [op |-> "hset", job |-> j]>>
    ELSE <<>>

RECURSIVE queue_jobs(_, _)
(* "for job in jobs: try: ... except Exception as e: errors.append(str(e))" *)
(* over the first k jobs (a sequence of job indexes): the pipeline's        *)
(* command stack, task_ids and the number of errors                         *)
queue_jobs(jobs, k) ==
    IF k = 0 THEN [pipe |-> <<>>, task_ids |-> <<>>, errors |-> 0]
    ELSE LET before == queue_jobs(jobs, k - 1)
             j == jobs[k]
         IN  [pipe |-> before.pipe \o job_commands(j),
              task_ids |-> IF packable[j] THEN Append(before.task_ids, j)
                           ELSE before.task_ids,
              errors |-> IF packable[j] THEN before.errors ELSE before.errors + 1]

(* what simulate_batch_endpoint(jobs) returns when pipe.execute() goes      *)
(* through: "executed" is the command stack that was sent, the sadd of the  *)
(* queue name (job -1) last                                                 *)
simulate_batch_endpoint(jobs) ==
    LET q == queue_jobs(jobs, Len(jobs))
    IN  [enqueued |-> Len(q.task_ids),
         failed |-> q.errors,
         task_ids |-> q.task_ids,
         executed |-> Append(q.pipe, [op |-> "sadd", job |-> -1])]

(* jobs[lo:lo+n] as the sequence of its job indexes *)
Slice(lo, n) == [k \in 1..n |-> lo + k - 1]

(* one simulated request: simulate_batch_endpoint(jobs[i:i+batch_size])     *)
(* queues two commands per job inside a per-job try and then calls          *)
(* pipe.execute() outside any try, so a fault of the pipeline ends the      *)
(* process; otherwise every job of the batch is reported as enqueued.       *)
EndpointRequest ==
    /\ pc = "batching"
    /\ runner = "batch_endpoint"
    /\ RangeHasNext
    /\ LET members == Span(cursor, cursor + SliceLen(jobs_count, cursor, batch_size))
           n == simulate_batch_endpoint(Slice(cursor, Cardinality(members))).enqueued
       IN  /\ submitted' = [i \in Jobs |-> IF i \in members THEN submitted[i] + 1
                                            ELSE submitted[i]]
           /\ attempted' = attempted + Cardinality(members)
           /\ \E d \in Deliveries :
                 IF d.ok
                 THEN /\ status' = [i \in Jobs |-> IF i \in members THEN "collected"
                                                   ELSE status[i]]
                      /\ outcome' = [i \in Jobs |-> IF i \in members
                                        THEN <<[lat |-> d.lat, ok |-> TRUE]>>
                                        ELSE outcome[i]]
                      /\ collects' = [i \in Jobs |-> IF i \in members
                                         THEN collects[i] + 1 ELSE collects[i]]
                      /\ total_enqueued' = total_enqueued + n
                      /\ delivered' = delivered + n
                      /\ latencies' = Append(latencies, d.lat)
                      /\ cursor' = cursor + batch_size
                      /\ pc' = pc
                      /\ UNCHANGED end_vars
                 ELSE /\ status' = [i \in Jobs |-> IF i \in members THEN "inflight"
                                                   ELSE status[i]]
                      /\ Abort("delivery")
                      /\ UNCHANGED <<outcome, collects, total_enqueued, delivered,
                                     latencies, cursor>>
    /\ UNCHANGED <<total_time, aux_vars, config_vars, pool_vars, temporal_vars, errors>>

(* avg_request_time = sum(request_times) / len(request_times) raises        *)
(* ZeroDivisionError when no request was made; the BenchmarkResult of this  *)
(* runner has no errors field.                                              *)
EndpointFinish ==
    /\ pc = "batching"
    /\ runner = "batch_endpoint"
    /\ ~RangeHasNext
    /\ \E t \in Durations :
          /\ total_time' = t
          /\ IF latencies = <<>> THEN Abort("aggregate")
             ELSE Complete([system |-> "runqy", job_count |-> jobs_count,
                            duration |-> t,
                            throughput |-> JobsPerSecond(jobs_count, t),
                            batch_size |-> batch_size, fault |-> "none"])
    /\ UNCHANGED <<aux_vars, config_vars, pool_vars, temporal_vars, job_vars, tally_vars,
                   ghost_vars, cursor>>

(* test_batch_endpoint.py --benchmark: benchmark_batch_sizes runs with no   *)
(* pre-flight check; num_requests = total_jobs_per_test // batch_size.      *)
BatchSizesStart ==
    /\ pc = "configuring"
    /\ runner = "batch_sizes"
    /\ pc' = "requests"
    /\ UNCHANGED <<total_time, aux_vars, config_vars, end_vars, pool_vars, temporal_vars, job_vars,
                   tally_vars, ghost_vars, cursor>>

(* one request posts the same batch_size jobs (ids 0..batch_size-1): a 200  *)
(* response adds its "enqueued" field to total_enqueued (every job of the   *)
(* request, as simulate_batch_endpoint reports for such jobs); another      *)
(* status or any exception adds 1 to errors.                                *)
BatchSizesRequest ==
    /\ pc = "requests"
    /\ cursor < jobs_count \div batch_size
    /\ LET members == Span(0, batch_size)
       IN  /\ submitted' = [i \in Jobs |-> IF i \in members THEN submitted[i] + 1
                                            ELSE submitted[i]]
           /\ attempted' = attempted + batch_size
    /\ \E ok \in BOOLEAN :
          IF ok
          THEN /\ total_enqueued' = total_enqueued + batch_size
               /\ delivered' = delivered + batch_size
               /\ UNCHANGED errors
          ELSE /\ errors' = errors + 1
               /\ UNCHANGED <<total_enqueued, delivered>>
    /\ cursor' = cursor + 1
    /\ UNCHANGED <<total_time, aux_vars, config_vars, pc, end_vars, pool_vars, temporal_vars, status,
                   outcome, collects, latencies>>

(* the batch size's entry of results is appended and returned; nothing is   *)
(* written to the results directory.                                        *)
BatchSizesFinish ==
    /\ pc = "requests"
    /\ cursor >= jobs_count \div batch_size
    /\ \E duration \in Durations :
          LET throughput == IF duration > 0
                            THEN JobsPerSecond(total_enqueued, duration) ELSE 0
          IN  /\ total_time' = duration
              /\ result' = <<[batch_size |-> batch_size, throughput |-> throughput,
                              duration |-> duration, fault |-> "none"]>>
    /\ pc' = "completed"
    /\ exit_code' = 0
    /\ UNCHANGED <<aux_vars, config_vars, cause, saved, pool_vars, temporal_vars, job_vars,
                   tally_vars, ghost_vars, cursor>>

----------------------------------------------------------------------------

Next ==
    \/ Preflight
    \/ PoolCreate
    \/ PoolSubmit
    \/ PoolSubmitted
    \/ WorkerStart
    \/ \E i \in Jobs : WorkerFinish(i)
    \/ \E i \in Jobs : PoolCollect(i)
    \/ PoolFinish
    \/ WarmupStart
    \/ WarmupReturn
    \/ Gather
    \/ Acquire
    \/ \E i \in Jobs : Return(i)
    \/ TemporalFinish
    \/ PipelinedRegister
    \/ PipelinedBatch
    \/ PipelinedFinish
    \/ BulkRegister
    \/ BulkPush
    \/ BulkFinish
    \/ EndpointStart
    \/ EndpointRequest
    \/ EndpointFinish
    \/ BatchSizesStart
    \/ BatchSizesRequest
    \/ BatchSizesFinish

Spec == Init /\ [][Next]_vars

(* The runs with progress: the threads, the event loop and the main loop    *)
(* keep running, and every submission that was started returns (with a     *)
(* response, an exception or a timeout), so a step that is possible is      *)
(* eventually taken.                                                        *)
SpecLive == Spec /\ WF_vars(Next)

----------------------------------------------------------------------------
(* The concurrent runners against the paced target.  Only the calls to the  *)
(* target take time: the clock moves when a call is in flight and the       *)
(* program has no step left that it could take at once.                     *)

InitPaced == InitWith(PacedConfigs, {DefaultTarget})

(* the steps the program takes without waiting for the target *)
Instant ==
    \/ PoolSubmit
    \/ PoolSubmitted
    \/ WorkerStart
    \/ \E i \in Jobs : WorkerFinish(i)
    \/ \E i \in Jobs : PoolCollect(i)
    \/ WarmupReturn
    \/ Acquire
    \/ \E i \in Jobs : Return(i)

(* when the earliest pending call returns *)
NextDue ==
    IF warm_busy THEN warm_started + Paced.delay
    ELSE LET dues == {started[i] + Paced.delay : i \in InFlight}
         IN  CHOOSE t \in dues : \A u \in dues : t <= u

(* time passes until the earliest pending call returns *)
Tick ==
    /\ IsPaced
    /\ warm_busy \/ InFlight # {}
    /\ ~ENABLED Instant
    /\ clock' = NextDue
    /\ UNCHANGED <<total_time, start_time, started, warm_started, target_vars,
                   packable, config_vars, pc, end_vars, pool_vars, temporal_vars,
                   job_vars, tally_vars, ghost_vars, cursor>>

NextPaced ==
    \/ Preflight
    \/ PoolCreate
    \/ PoolSubmit
    \/ PoolSubmitted
    \/ WorkerStart
    \/ \E i \in Jobs : WorkerFinish(i)
    \/ \E i \in Jobs : PoolCollect(i)
    \/ PoolFinish
    \/ WarmupStart
    \/ WarmupReturn
    \/ Gather
    \/ Acquire
    \/ \E i \in Jobs : Return(i)
    \/ TemporalFinish
    \/ Tick

SpecPaced == InitPaced /\ [][NextPaced]_vars

----------------------------------------------------------------------------
(* The Temporal runner on its own, with progress: the event loop runs a     *)
(* task that waits at the semaphore once a permit is free, and a            *)
(* submission that was started returns (with a handle or an exception).     *)

InitTemporal == InitWith({c \in Configs : c.runner = "temporal"}, {DefaultTarget})

NextTemporal ==
    \/ Preflight
    \/ WarmupStart
    \/ WarmupReturn
    \/ Gather
    \/ Acquire
    \/ \E i \in Jobs : Return(i)
    \/ TemporalFinish

SpecTemporal ==
    /\ InitTemporal
    /\ [][NextTemporal]_vars
    /\ WF_vars(Acquire)
    /\ WF_vars(\E i \in Jobs : Return(i))

----------------------------------------------------------------------------
(* The scripts that take their target from the command line, run with the   *)
(* default target or with another one.                                      *)

OverrideRunners == {"runqy", "celery"}

InitTargets ==
    InitWith({c \in Configs : c.runner \in OverrideRunners /\ c.jobs <= MaxJobs},
             Targets)

NextTargets ==
    \/ Preflight
    \/ PoolCreate
    \/ PoolSubmit
    \/ PoolSubmitted
    \/ WorkerStart
    \/ \E i \in Jobs : WorkerFinish(i)
    \/ \E i \in Jobs : PoolCollect(i)
    \/ PoolFinish

SpecTargets == InitTargets /\ [][NextTargets]_vars

----------------------------------------------------------------------------
(* simulate_batch_endpoint as a function of its job list: a caller hands it *)
(* up to MaxPayloads jobs, each with a payload that packs or does not.      *)

InitBatchCall ==
    \E n \in 0..MaxPayloads :
        /\ runner = "batch_endpoint"
        /\ jobs_count = n
        /\ concurrency = 1
        /\ batch_size = Max2(n, 1)
        /\ preflight = "ok"
        /\ pc = "calling"
        /\ cause = "none"
        /\ exit_code = -1
        /\ saved = FALSE
        /\ result = <<>>
        /\ status = [i \in 0..(n - 1) |-> "none"]
        /\ outcome = [i \in 0..(n - 1) |-> NoOutcome]
        /\ submitted = [i \in 0..(n - 1) |-> 0]
        /\ collects = [i \in 0..(n - 1) |-> 0]
        /\ threads = 0
        /\ idle = 0
        /\ sem = 0
        /\ warm = 0
        /\ warm_busy = FALSE
        /\ latencies = <<>>
        /\ errors = 0
        /\ cursor = 0
        /\ total_enqueued = 0
        /\ delivered = 0
        /\ attempted = 0
        /\ total_time = -1
        /\ clock = 0
        /\ start_time = -1
        /\ started = [i \in 0..(n - 1) |-> -1]
        /\ warm_started = -1
        /\ target_arg = DefaultTarget
        /\ probed = DefaultTarget
        /\ sent_to = "none"
        /\ packable \in [0..(n - 1) -> BOOLEAN]

(* one call simulate_batch_endpoint(jobs): it returns its dict, or          *)
(* pipe.execute(), which is outside the try, raises                         *)
BatchCall ==
    /\ pc = "calling"
    /\ \E executes \in BOOLEAN :
          IF executes
          THEN /\ result' = <<simulate_batch_endpoint(Slice(0, jobs_count))>>
               /\ pc' = "returned"
               /\ UNCHANGED <<cause, exit_code, saved>>
          ELSE Abort("delivery")
    /\ sent_to' = DefaultTarget
    /\ UNCHANGED <<total_time, clock_vars, target_arg, probed, packable, config_vars,
                   pool_vars, temporal_vars, job_vars, tally_vars, ghost_vars,
                   cursor>>

NextBatchCall == BatchCall

SpecBatchCall == InitBatchCall /\ [][NextBatchCall]_vars

----------------------------------------------------------------------------
(* The statistics on their own: runs that stand at the end of their         *)
(* collection, every job delivered, with the observed latencies drawn from  *)
(* StatInputs; the runners' own finish steps compute the results.           *)

StatValues == {12, 15, 25}

(* lengths at which the 95 and 99 percent indexes are whole products, and   *)
(* one where the 99 percent index is not the last                           *)
LongLens == {20, 40, 100, 101}

(* n latencies out of order: distinct for d = 1, with repeats for d = 3 *)
LongList(n, d) == SubSeq([i \in 1..n |-> 10 + ((i * 7) % n) \div d], 1, n)

StatInputs ==
    UNION {[1..k -> StatValues] : k \in 0..MaxShortLen}
        \cup {LongList(n, d) : n \in LongLens, d \in {1, 3}}

StatRunners == PoolRunners \cup {"temporal", "pipelined"}

InitStats ==
    \E L \in StatInputs, r \in StatRunners :
        /\ runner = r
        /\ jobs_count = Len(L)
        /\ concurrency = 1
        /\ batch_size = 1
        /\ preflight = "ok"
        /\ pc = CASE r \in PoolRunners -> "collecting"
                  [] r = "temporal" -> "gathering"
                  [] OTHER -> "batching"
        /\ cause = "none"
        /\ exit_code = -1
        /\ saved = FALSE
        /\ result = <<>>
        /\ status = [i \in 0..(Len(L) - 1) |->
                         IF r = "temporal" THEN "done" ELSE "collected"]
        /\ outcome = [i \in 0..(Len(L) - 1) |-> <<[lat |-> L[i + 1], ok |-> TRUE]>>]
        /\ submitted = [i \in 0..(Len(L) - 1) |-> 1]
        /\ collects = [i \in 0..(Len(L) - 1) |-> IF r = "temporal" THEN 0 ELSE 1]
        /\ threads = IF r \in PoolRunners THEN Min2(1, Len(L)) ELSE 0
        /\ idle = IF r \in PoolRunners THEN Len(L) ELSE 0
        /\ sem = IF r = "temporal" THEN 1 ELSE 0
        /\ warm = IF r = "temporal" THEN Min2(50, Len(L) \div 20) ELSE 0
        /\ warm_busy = FALSE
        /\ latencies = IF r = "temporal" THEN <<>> ELSE L
        /\ errors = 0
        /\ cursor = IF r = "temporal" THEN 0 ELSE Len(L)
        /\ total_enqueued = 0
        /\ delivered = Len(L)
        /\ attempted = Len(L)
        /\ total_time = -1
        /\ clock = 0
        /\ start_time = 0
        /\ started = [i \in 0..(Len(L) - 1) |-> 0]
        /\ warm_started = -1
        /\ target_arg = DefaultTarget
        /\ probed = DefaultTarget
        /\ sent_to = IF Len(L) > 0 THEN DefaultTarget ELSE "none"
        /\ packable = [i \in 0..(Len(L) - 1) |-> TRUE]

NextStats ==
    \/ PoolFinish
    \/ TemporalFinish
    \/ PipelinedFinish

SpecStats == InitStats /\ [][NextStats]_vars

----------------------------------------------------------------------------
(* calculate_metrics as a function of its arguments: a caller that holds a  *)
(* latency list, a job count and the two clock readings calls it twice.     *)

(* end_time - start_time of the arguments: any two readings can be passed   *)
MetricDurations == Durations \cup {0}

InitTwice ==
    \E L \in StatInputs, r \in {"runqy", "celery"}, d \in MetricDurations :
        /\ runner = r
        /\ jobs_count = Len(L)
        /\ concurrency = 1
        /\ batch_size = 1
        /\ preflight = "ok"
        /\ pc = "calling"
        /\ cause = "none"
        /\ exit_code = -1
        /\ saved = FALSE
        /\ result = <<>>
        /\ status = [i \in 0..(Len(L) - 1) |-> "collected"]
        /\ outcome = [i \in 0..(Len(L) - 1) |-> <<[lat |-> L[i + 1], ok |-> TRUE]>>]
        /\ submitted = [i \in 0..(Len(L) - 1) |-> 1]
        /\ collects = [i \in 0..(Len(L) - 1) |-> 1]
        /\ threads = Min2(1, Len(L))
        /\ idle = Len(L)
        /\ sem = 0
        /\ warm = 0
        /\ warm_busy = FALSE
        /\ latencies = L
        /\ errors = 0
        /\ cursor = Len(L)
        /\ total_enqueued = 0
        /\ delivered = Len(L)
        /\ attempted = Len(L)
        /\ total_time = d
        /\ clock = 0
        /\ start_time = 0
        /\ started = [i \in 0..(Len(L) - 1) |-> 0]
        /\ warm_started = -1
        /\ target_arg = DefaultTarget
        /\ probed = DefaultTarget
        /\ sent_to = IF Len(L) > 0 THEN DefaultTarget ELSE "none"
        /\ packable = [i \in 0..(Len(L) - 1) |-> TRUE]

(* one call of calculate_metrics on the caller's list: the result is kept   *)
(* next to the earlier ones, and the caller's list is afterwards "kept"     *)
MetricsCallWith(kept) ==
    /\ pc = "calling"
    /\ Len(result) < 2
    /\ result' = Append(result,
                        calculate_metrics(IF runner = "runqy" THEN "Runqy" ELSE "Celery",
                                          jobs_count, 0, total_time, latencies, errors))
    /\ latencies' = kept
    /\ UNCHANGED <<aux_vars, config_vars, pc, cause, exit_code, saved, pool_vars,
                   temporal_vars, job_vars, errors, total_enqueued, ghost_vars,
                   cursor, total_time>>

(* a percentile computed with latencies.sort(), in place *)
MetricsCall_inplace == MetricsCallWith(sorted(latencies))

(* calculate_percentile takes sorted(latencies), a new list, and            *)
(* calculate_metrics builds latencies_ms, another new list                  *)
MetricsCall == MetricsCallWith(latencies)

NextTwice == MetricsCall

SpecTwice == InitTwice /\ [][NextTwice]_vars

----------------------------------------------------------------------------
(* Properties *)

ConcurrentRunners == PoolRunners \cup {"temporal"}
Ended == pc \in {"completed", "failed"}

(* the jobs whose recorded outcome is a failure *)
FailedJobs == {i \in Jobs : outcome[i] # NoOutcome /\ ~outcome[i][1].ok}

(* C1: in the thread-pool runners and the Temporal runner, run with a       *)
(* concurrency of at least 1, the number of submission attempts started     *)
(* and not yet returned (a warm-up submission included) is at most the      *)
(* configured concurrency in every reachable state, and the pool never      *)
(* has more worker threads than that.                                       *)
C1_InFlightBounded ==
    (runner \in ConcurrentRunners /\ concurrency >= 1) =>
        /\ Unresolved <= concurrency
        /\ threads <= concurrency

(* the bound is reached while further jobs are waiting *)
C1_Witness ==
    /\ runner \in PoolRunners
    /\ concurrency = 2
    /\ Cardinality(InFlight) = 2
    /\ Queued # {}

(* C2: in the concurrent runners no job index is ever submitted or          *)
(* collected more than once, and when the run is complete every index of    *)
(* range(job_count) has been submitted exactly once and has exactly one     *)
(* outcome, collected exactly once, whatever the completion order.          *)
C2_ExactlyOnce ==
    runner \in ConcurrentRunners =>
        /\ \A i \in Jobs : submitted[i] <= 1 /\ collects[i] <= 1
        /\ pc = "completed" =>
              \A i \in JobRange :
                 submitted[i] = 1 /\ collects[i] = 1 /\ outcome[i] # NoOutcome

(* a complete run whose second job was collected before its first *)
C2_Witness ==
    /\ runner = "runqy"
    /\ pc = "completed"
    /\ jobs_count = 2
    /\ outcome[0][1].lat = 12
    /\ outcome[1][1].lat = 25
    /\ latencies = <<25, 12>>

(* C3: for a run with a valid job_count = N that produces a result, the     *)
(* jobs the target accepted plus the errors the runner counted equal N, in  *)
(* every runner that counts errors.                                         *)
C3_SuccessesPlusErrors ==
    (pc = "completed" /\ jobs_count >= 0 /\ runner # "batch_endpoint") =>
        delivered + errors = jobs_count

(* the runners whose submission unit hands an outcome back to the loop that *)
(* drives it: one job in the concurrent runners, one batch in               *)
(* benchmark_pipelined                                                      *)
OutcomeRunners == ConcurrentRunners \cup {"pipelined"}

C5_NoFaultPropagates == cause # "delivery"

(* C6: in the runner scripts that probe their target, a failed pre-flight   *)
(* check takes the run straight to "failed" with exit status 1, no          *)
(* submission (warm-up included) attempted and no result produced or saved; *)
(* and the run is past "configuring", or has attempted anything, only       *)
(* after a successful check.                                                *)
C6_PreflightGate ==
    runner \in PreflightRunners =>
        /\ preflight = "unreachable" =>
              /\ pc = "failed" /\ cause = "preflight" /\ exit_code = 1
              /\ attempted = 0 /\ warm = 0 /\ ~warm_busy
              /\ \A i \in Jobs : submitted[i] = 0 /\ status[i] = "none"
              /\ result = <<>> /\ ~saved
        /\ pc \notin {"configuring", "failed"} => preflight = "ok"
        /\ (attempted > 0 \/ warm > 0 \/ warm_busy \/ result # <<>>) => preflight = "ok"

(* a run of two jobs stopped by its pre-flight check *)
C6_Witness ==
    /\ runner = "direct"
    /\ jobs_count = 2
    /\ preflight = "unreachable"
    /\ pc = "failed"

(* C7: a run configured with concurrency < 1 or job_count < 0 attempts no   *)
(* submission (warm-up included), produces no result, and does not hang:    *)
(* it has ended or can take a step.                                         *)
C7_InvalidConfigRejected ==
    (concurrency < 1 \/ jobs_count < 0) =>
        /\ attempted = 0 /\ warm = 0 /\ ~warm_busy
        /\ result = <<>> /\ ~saved
        /\ Ended \/ ENABLED Next

(* C8: a complete run has a result and exit status 0; a run that ended in   *)
(* "failed" has exit status 1 and no result, produced or saved; and once a  *)
(* submission has failed (errors counted, up to every job) the run does     *)
(* not end in "failed": it is complete, with the errors in its result, or   *)
(* can still take a step.                                                   *)
C8_ResultOrFailureSignal ==
    /\ pc = "completed" =>
          result # <<>> /\ result[1].fault = "none" /\ exit_code = 0
    /\ pc = "failed" =>
          exit_code = 1 /\ cause # "none" /\ result = <<>> /\ ~saved
    /\ pc \notin {"completed", "failed"} => exit_code = -1
    /\ (errors > 0 \/ FailedJobs # {}) =>
          /\ pc # "failed"
          /\ pc = "completed" \/ ENABLED Next
          /\ (pc = "completed" /\ runner # "batch_sizes") => result[1].errors = errors

(* a Temporal run whose two submissions both failed, and its result *)
C8_Witness ==
    /\ runner = "temporal"
    /\ pc = "completed"
    /\ jobs_count = 2
    /\ errors = 2
    /\ result[1].errors = 2
    /\ exit_code = 0

(* the millisecond collection the percentiles of the run are taken from *)
Collection ==
    CASE runner \in PoolRunners -> ToMs(latencies)
      [] runner = "pipelined" -> per_job_latencies(latencies)
      [] OTHER -> latencies

(* C9: for a complete run with a non-empty latency collection L,            *)
(* calculate_percentile gives percentile 50 <= percentile 95 <= percentile  *)
(* 99 <= max(L) and min(L) <= percentile 50, and the result's p50, p95,     *)
(* p99 fields are in the same order and lie between its min and max fields  *)
(* (between min(L) and max(L) for the results that have no such fields).    *)
C9_PercentilesOrdered ==
    (pc = "completed" /\ runner \in StatRunners /\ Collection # <<>>) =>
        LET L == Collection
            r == result[1]
        IN  /\ calculate_percentile(L, 50) <= calculate_percentile(L, 95)
            /\ calculate_percentile(L, 95) <= calculate_percentile(L, 99)
            /\ calculate_percentile(L, 99) <= SeqMax(L)
            /\ SeqMin(L) <= calculate_percentile(L, 50)
            /\ r.p50 <= r.p95 /\ r.p95 <= r.p99
            /\ IF runner \in {"runqy", "celery"}
               THEN r.min <= r.p50 /\ r.p99 <= r.max
               ELSE SeqMin(L) <= r.p50 /\ r.p99 <= SeqMax(L)

(* a result of 100 latencies observed out of order, its fields apart *)
C9_Witness ==
    /\ runner = "runqy"
    /\ pc = "completed"
    /\ Len(latencies) = 100
    /\ latencies # sorted(latencies)
    /\ result[1].min < result[1].p50
    /\ result[1].p50 < result[1].p95
    /\ result[1].p95 < result[1].p99
    /\ result[1].p99 <= result[1].max

(* x is the element at 0-based index k of the ascending order of L *)
IsElementAt(L, k, x) ==
    /\ \E i \in DOMAIN L : L[i] = x
    /\ Cardinality({i \in DOMAIN L : L[i] < x}) <= k
    /\ k < Cardinality({i \in DOMAIN L : L[i] <= x})

(* the p50 / p95 / p99 field of a result *)
Reported(r, p) == CASE p = 50 -> r.p50 [] p = 95 -> r.p95 [] p = 99 -> r.p99

(* C10: for a run that reached its statistics with a collection of n >= 1   *)
(* latencies, no index falls outside the collection (the run is complete,   *)
(* not ended by an IndexError); for p in {50, 95, 99} calculate_percentile  *)
(* gives the element at index clamp((n * p) div 100, 0, n - 1) of the       *)
(* ascending order; the inline computations of benchmark_runqy_direct,      *)
(* benchmark_pipelined and run_benchmark report that same element, and      *)
(* calculate_metrics reports it rounded to 3 decimals.                      *)
C10_PercentileIndex ==
    (Ended /\ runner \in StatRunners /\ Collection # <<>>) =>
        LET L == Collection
            n == Len(L)
        IN  /\ cause # "aggregate"
            /\ pc = "completed"
            /\ \A p \in {50, 95, 99} :
                  LET k == Max2(0, Min2((n * p) \div 100, n - 1))
                      x == calculate_percentile(L, p)
                  IN  /\ IsElementAt(L, k, x)
                      /\ Reported(result[1], p) =
                             IF runner \in {"runqy", "celery"} THEN Round3(x) ELSE x

(* 101 latencies through the inline computation: the 99 percent index is    *)
(* 99, not the last one                                                     *)
C10_Witness ==
    /\ runner = "direct"
    /\ pc = "completed"
    /\ Len(latencies) = 101
    /\ result[1].p50 < result[1].p95
    /\ result[1].p95 < result[1].p99
    /\ result[1].p99 < SeqMax(Collection)

(* C11: the throughput of every result is job_count divided by the          *)
(* wall-clock duration of the run (0 when the duration is not positive),    *)
(* whatever the number of successful jobs.                                  *)
C11_ThroughputIsJobsOverDuration ==
    (pc = "completed" /\ jobs_count >= 0) =>
        result[1].throughput =
            IF total_time > 0 THEN JobsPerSecond(jobs_count, total_time) ELSE 0

(* the runners that hand their latencies to calculate_metrics *)
MetricsRunners == {"runqy", "celery"}

(* C12: on an empty latency collection calculate_percentile returns 0 for   *)
(* every percentile and calculate_metrics reports 0 for p50, p95, p99,      *)
(* mean, min and max, and the computation raises no fault: a run of         *)
(* calculate_metrics never ends in an aggregation fault.                    *)
C12_EmptyCollectionZero ==
    runner \in MetricsRunners =>
        /\ cause # "aggregate"
        /\ (pc = "completed" /\ latencies = <<>>) =>
              /\ \A p \in {50, 95, 99} : calculate_percentile(latencies, p) = 0
              /\ result[1].fault = "none"
              /\ result[1].p50 = 0 /\ result[1].p95 = 0 /\ result[1].p99 = 0
              /\ result[1].avg = 0 /\ result[1].min = 0 /\ result[1].max = 0

(* a run of no jobs went through calculate_metrics *)
C12_Witness ==
    /\ runner = "celery"
    /\ pc = "completed"
    /\ jobs_count = 0
    /\ latencies = <<>>
    /\ result[1].job_count = 0

(* C13: in every runner a run with job_count = 0 raises no fault while it   *)
(* computes its result, and completes with throughput 0, errors 0 and every *)
(* latency statistic 0.                                                     *)
C13_ZeroJobsCompletes ==
    jobs_count = 0 =>
        /\ cause # "aggregate"
        /\ pc = "completed" =>
              /\ result[1].throughput = 0
              /\ runner # "batch_endpoint" =>
                    /\ result[1].errors = 0
                    /\ result[1].p50 = 0 /\ result[1].p95 = 0 /\ result[1].p99 = 0

(* C14: the collection the percentiles of a complete run are taken from     *)
(* has exactly job_count entries, one per attempted submission, failed      *)
(* submissions included.                                                    *)
C14_AllAttemptsInDistribution ==
    (pc = "completed" /\ runner \in OutcomeRunners /\ jobs_count >= 0) =>
        Len(Collection) = jobs_count

(* the latencies of the outcomes in the order of the job indexes *)
IndexLats ==
    IF jobs_count <= 0 THEN <<>>
    ELSE SubSeq([i \in 1..jobs_count |-> outcome[i - 1][1].lat], 1, jobs_count)

(* the result computed from the outcomes taken in index order *)
IndexOrderResult ==
    CASE runner \in MetricsRunners ->
           calculate_metrics(IF runner = "runqy" THEN "Runqy" ELSE "Celery",
                             jobs_count, 0, total_time, IndexLats,
                             Cardinality(FailedJobs))
      [] runner = "direct" ->
           direct_result(jobs_count, total_time, IndexLats, Cardinality(FailedJobs))
      [] OTHER ->
           temporal_result(jobs_count, total_time, SuccessLats(jobs_count),
                           Cardinality(FailedJobs))

(* C15: in the concurrent runners the result of a complete run is the one   *)
(* computed from the outcomes taken in index order and the measured         *)
(* duration: job count, error count, percentiles, mean, min and max do not  *)
(* depend on the order in which the submissions completed and were          *)
(* collected.                                                               *)
C15_OrderIndependent ==
    (pc = "completed" /\ runner \in ConcurrentRunners) =>
        result[1] = IndexOrderResult

(* three jobs collected in an order that is neither the index order nor     *)
(* the ascending one                                                        *)
C15_Witness ==
    /\ runner = "celery"
    /\ pc = "completed"
    /\ jobs_count = 3
    /\ IndexLats = <<12, 25, 12>>
    /\ latencies = <<25, 12, 12>>
    /\ errors = 1

(* the 0-based job indexes of batch b (1-based) *)
BatchJobs(b) == Span((b - 1) * batch_size, Min2(b * batch_size, jobs_count))

(* C16: in a complete run of benchmark_pipelined with job_count >= 1 and    *)
(* batch size >= 1, the attributed-latency collection has exactly job_count *)
(* entries; every job of a batch of k jobs that took T is attributed T / k  *)
(* (on the grid of the latencies), so the attributed latencies of a batch   *)
(* add up to T; and with 1000 jobs in batches of 100 taking 50 ms each,     *)
(* every job is attributed 0.5 ms, and the throughput of a run that lasted  *)
(* the 500 ms of its ten batches is 2000 jobs/s.                            *)
C16_BatchLatencyAttributed ==
    (runner = "pipelined" /\ pc = "completed" /\ jobs_count >= 1 /\ batch_size >= 1) =>
        LET attributed == per_job_latencies(latencies)
        IN  /\ Len(attributed) = jobs_count
            /\ \A b \in 1..Len(latencies) :
                  LET k == Cardinality(BatchJobs(b))
                      T == latencies[b]
                  IN  /\ k >= 1
                      /\ \A j \in BatchJobs(b) :
                            /\ attributed[j + 1] * k <= T
                            /\ T < attributed[j + 1] * k + k
            /\ (jobs_count = 1000 /\ batch_size = 100) =>
                  /\ Len(latencies) = 10
                  /\ \A b \in 1..10 : latencies[b] = 500000000
                  /\ \A j \in 1..1000 : attributed[j] = 5000000
                  /\ result[1].p50 = 5000000 /\ result[1].p99 = 5000000
                  /\ total_time = 5000 => result[1].throughput = 200000

(* the run of 1000 jobs in ten batches of 50 ms is complete, 500 ms after   *)
(* its start                                                                *)
C16_Witness ==
    /\ runner = "pipelined"
    /\ pc = "completed"
    /\ jobs_count = 1000
    /\ batch_size = 100
    /\ total_time = 5000
    /\ result[1].throughput = 200000
    /\ result[1].p95 = 5000000

(* the runners that partition range(job_count) into batches *)
PartitionRunners == {"pipelined", "batch_endpoint"}

(* C17: in benchmark_pipelined and benchmark_batch_endpoint with job_count  *)
(* N >= 1 and batch size B >= 1, after every batch the cursor is a multiple *)
(* of B, the jobs below it have been handed over exactly once and the       *)
(* others not at all, and one request per batch has been made: the batches  *)
(* are the disjoint contiguous ranges [kB, min((k+1)B, N)), taken in index  *)
(* order, all of B jobs except possibly the last (1 to B jobs); a complete  *)
(* run has made exactly ceil(N / B) requests and covered 0..N-1.            *)
C17_BatchesPartitionJobs ==
    (runner \in PartitionRunners /\ jobs_count >= 1 /\ batch_size >= 1
        /\ pc \in {"batching", "completed"}) =>
        /\ cursor % batch_size = 0
        /\ cursor < jobs_count + batch_size
        /\ \A i \in Jobs : submitted[i] = IF i < cursor THEN 1 ELSE 0
        /\ attempted = Min2(cursor, jobs_count)
        /\ Len(latencies) = cursor \div batch_size
        /\ pc = "completed" =>
              /\ Len(latencies) = (jobs_count + batch_size - 1) \div batch_size
              /\ \A i \in JobRange : submitted[i] = 1
              /\ LET last == jobs_count - (Len(latencies) - 1) * batch_size
                 IN  1 <= last /\ last <= batch_size

(* three jobs in batches of two: a full batch and a last batch of one *)
C17_Witness ==
    /\ runner = "batch_endpoint"
    /\ pc = "completed"
    /\ jobs_count = 3
    /\ batch_size = 2
    /\ Len(latencies) = 2
    /\ total_enqueued = 3

C19_ErrorsCountFailures ==
    runner \in PoolRunners =>
        /\ errors = Cardinality({i \in FailedJobs : status[i] = "collected"})
        /\ pc = "completed" =>
              /\ result[1].errors = Cardinality(FailedJobs)
              /\ jobs_count >= 0 =>
                    Cardinality({i \in Jobs : outcome[i][1].ok}) + result[1].errors
                        = jobs_count
              /\ (jobs_count = 10 /\ concurrency = 5) => result[1].errors = 3

(* the run of 10 jobs against the flaky target is complete: the 3rd, 6th    *)
(* and 9th calls failed                                                     *)
C19_Witness ==
    /\ runner = "runqy"
    /\ pc = "completed"
    /\ jobs_count = 10
    /\ concurrency = 5
    /\ errors = 3
    /\ FailedJobs = {2, 5, 8}

(* C20: every run terminates: it eventually ends, complete with its result  *)
(* or failed; no submission stays pending and no collector waits forever.   *)
C20_RunTerminates == <>Ended

(* the submissions that have not returned yet *)
Remaining == Cardinality({i \in Jobs : status[i] \in {"none", "queued", "inflight"}})

(* the number of rounds of `concurrency` calls that job_count calls take *)
Rounds == (jobs_count + concurrency - 1) \div concurrency

(* C21: against the paced target (every call succeeding after the fixed     *)
(* delay d = 5 ms, the program's own steps taking no time), whenever time   *)
(* passes during the timed window min(concurrency, jobs not yet returned)   *)
(* calls are in flight; the duration of a complete run is                   *)
(* ceil(job_count / concurrency) * d, its throughput job_count over that,   *)
(* errors is 0 and p50 = p95 = p99 = d; with 100 jobs, 10 at a time, the    *)
(* duration is 100 * d / 10 = 50 ms and the throughput 2000 jobs/s.         *)
C21_WorkConserving ==
    /\ (ENABLED Tick /\ ~warm_busy) =>
           Cardinality(InFlight) = Min2(concurrency, Remaining)
    /\ pc = "completed" =>
           /\ total_time = Rounds * Paced.delay
           /\ result[1].duration = total_time
           /\ result[1].throughput = JobsPerSecond(jobs_count, total_time)
           /\ result[1].errors = 0
           /\ result[1].p50 = Paced.delay * 1000000
           /\ result[1].p95 = Paced.delay * 1000000
           /\ result[1].p99 = Paced.delay * 1000000
           /\ concurrency = 10 =>
                  total_time = 500 /\ result[1].throughput = 200000

(* the Temporal run of 100 jobs, 10 at a time, is complete after 50 ms of   *)
(* timed window                                                             *)
C21_Witness ==
    /\ runner = "temporal"
    /\ pc = "completed"
    /\ jobs_count = 100
    /\ concurrency = 10
    /\ total_time = 500
    /\ result[1].throughput = 200000
    /\ result[1].p50 = 50000000

(* C21 as stated: the same run has a throughput of 200 jobs/s *)
C21_Throughput200 ==
    (pc = "completed" /\ jobs_count = 100 /\ concurrency = 10) =>
        /\ total_time = 500
        /\ result[1].throughput = 20000

(* C22: in the concurrent runners the elapsed time an outcome carries is    *)
(* the time its call took, from just before it was initiated to just after  *)
(* it returned, for a failed submission as for a successful one (Temporal   *)
(* reports it in milliseconds).                                             *)
C22_ElapsedMeasured ==
    runner \in ConcurrentRunners =>
        \A i \in Jobs :
            outcome[i] # NoOutcome =>
                outcome[i][1].lat = IF runner = "temporal"
                                    THEN outcome[i][1].spent * 1000
                                    ELSE outcome[i][1].spent

(* the futures the collecting loop has consumed *)
Consumed == {i \in Jobs : status[i] = "collected"}

(* a step of a thread-pool run that keeps the aggregation state in the      *)
(* hands of the collecting loop                                             *)
CollectorOnlyStep ==
    runner \in PoolRunners =>
        /\ \A i \in Jobs :
               (status[i] = "inflight" /\ status'[i] = "done") =>
                   (latencies' = latencies /\ errors' = errors)
        /\ (latencies' # latencies \/ errors' # errors) => pc = "collecting"
        /\ Len(latencies') = Cardinality(Consumed')
        /\ errors' = Cardinality({i \in Consumed' : ~outcome'[i][1].ok})

(* C23: in the thread-pool runners a step in which a worker thread          *)
(* completes a submission leaves the latencies list and the errors counter  *)
(* alone; they change only while the main thread is in its collecting       *)
(* loop; and after every step, under every interleaving, the list has one   *)
(* entry per future consumed and the counter one count per failed future    *)
(* consumed: no append or increment is lost.                                *)
C23_SingleWriter == [][CollectorOnlyStep]_vars

(* three futures of the direct runner were consumed, two of them failed,    *)
(* with two worker threads                                                  *)
C23_Witness ==
    /\ runner = "direct"
    /\ pc = "completed"
    /\ jobs_count = 3
    /\ concurrency = 2
    /\ Len(latencies) = 3
    /\ errors = 2

(* C24: in the scripts that take a target override, whatever its value,     *)
(* once a submission has been sent the pre-flight check has passed and the  *)
(* target it probed is the target the submission was sent to.               *)
C24_CheckedTargetIsUsed ==
    (runner \in OverrideRunners /\ sent_to # "none") =>
        /\ preflight = "ok"
        /\ sent_to = probed

C26_WarmupOutsideWindow ==
    runner = "temporal" =>
        /\ warm <= Min2(50, jobs_count \div 20)
        /\ warm_busy =>
               /\ pc = "start" /\ start_time = -1
               /\ attempted = 0 /\ \A i \in Jobs : submitted[i] = 0
        /\ pc = "start" => Unresolved <= 1 /\ latencies = <<>> /\ errors = 0
        /\ start_time # -1 =>
               /\ warm = Min2(50, jobs_count \div 20)
               /\ ~warm_busy
               /\ start_time = warm * Paced.delay
        /\ pc = "completed" =>
               /\ attempted = jobs_count
               /\ \A i \in JobRange : submitted[i] = 1
               /\ Len(latencies) + errors = jobs_count
               /\ result[1].job_count = jobs_count
               /\ total_time = clock - start_time
               /\ total_time = Rounds * Paced.delay
               /\ result[1].duration = total_time

(* five warm-ups took 25 ms before the window opened; the run of 100 jobs   *)
(* is complete and its measured duration is the 50 ms of the window         *)
C26_Witness ==
    /\ runner = "temporal"
    /\ pc = "completed"
    /\ warm = 5
    /\ start_time = 250
    /\ clock = 750
    /\ total_time = 500

(* the positions of the executed pipeline that hold command op of job j *)
CommandsOf(executed, op, j) ==
    {k \in DOMAIN executed : executed[k].op = op /\ executed[k].job = j}

(* C27: when simulate_batch_endpoint returns, enqueued + failed is the      *)
(* number of jobs it was given and task_ids has enqueued entries; a job     *)
(* counted as failed (one whose payload does not pack) has no command in    *)
(* the pipeline that was executed, and a job counted as enqueued has        *)
(* exactly its list push and then its metadata write in it.                 *)
C27_BatchAccounting ==
    pc = "returned" =>
        LET r == result[1]
            enq == {r.task_ids[k] : k \in DOMAIN r.task_ids}
        IN  /\ r.enqueued + r.failed = jobs_count
            /\ Len(r.task_ids) = r.enqueued
            /\ Cardinality(enq) = r.enqueued
            /\ enq = {j \in Jobs : packable[j]}
            /\ r.failed = Cardinality(Jobs \ enq)
            /\ \A j \in Jobs \ enq :
                   \A k \in DOMAIN r.executed : r.executed[k].job # j
            /\ \A j \in enq :
                   /\ Cardinality(CommandsOf(r.executed, "lpush", j)) = 1
                   /\ Cardinality(CommandsOf(r.executed, "hset", j)) = 1
                   /\ \A a \in CommandsOf(r.executed, "lpush", j),
                         b \in CommandsOf(r.executed, "hset", j) : a < b
            /\ Len(r.executed) = 2 * r.enqueued + 1

(* three jobs, the second with a payload that does not pack: two enqueued,  *)
(* one failed, five commands executed                                       *)
C27_Witness ==
    /\ pc = "returned"
    /\ jobs_count = 3
    /\ packable = (0 :> TRUE) @@ (1 :> FALSE) @@ (2 :> TRUE)
    /\ result[1].enqueued = 2
    /\ result[1].failed = 1
    /\ result[1].task_ids = <<0, 2>>
    /\ Len(result[1].executed) = 5

(* C28: in benchmark_runqy_direct the connections checked out of the        *)
(* shared pool never exceed the configured concurrency, which is below the  *)
(* pool's max_connections, so the pool is never exhausted and no outcome    *)
(* is an error raised by the pool, under every interleaving.                *)
C28_PoolNeverExhausted ==
    runner = "direct" =>
        /\ CheckedOut <= Max2(concurrency, 0)
        /\ concurrency < max_connections
        /\ CheckedOut < max_connections
        /\ \A i \in Jobs : outcome[i] # NoOutcome => outcome[i][1].err # "pool"

(* both workers of a run of three jobs hold a connection while an earlier   *)
(* submission has already gone through                                      *)
C28_Witness ==
    /\ runner = "direct"
    /\ jobs_count = 3
    /\ concurrency = 2
    /\ CheckedOut = 2
    /\ outcome[0] # NoOutcome
    /\ outcome[0][1].err = "none"

====
